---- MODULE Spec2Model ----
(***************************************************************************)
(* Model of packages/request-id/src/middleware.ts: the byte/hex/UUID       *)
(* encoding helpers and the request-identifying middleware.                *)
(*                                                                         *)
(* A JavaScript string is a sequence of one-character strings.  The values *)
(* undefined and null are the one-element sequences Undefined and Null,    *)
(* whose element is no character, so they differ from every string.  An    *)
(* object is a function from its property names to their values.           *)
(***************************************************************************)
EXTENDS Integers, Sequences, FiniteSets, TLC

VARIABLES
    byteToHex,                 \* module-level lookup table (middleware.ts:16-19)
    event,                     \* event[i]: the event invocation i is called with
    pc,                        \* pc[i]: "idle" | "awaiting" | "settled" | "done"
    trace,                     \* trace[i]: the 16-byte buffer of line 66
    span,                      \* span[i]: the 16-byte buffer of line 69
    requestIdentifierContext,  \* requestIdentifierContext[i]: the object of line 96
    nextArg,                   \* nextArg[i]: the argument next was called with
    settled,                   \* settled[i]: how the promise of next(event) settled
    outcome,                   \* outcome[i]: how the middleware's own promise settled
    encOp,                     \* last encoding function called directly
    encBytes,                  \* its argument, when a byte array
    encStr,                    \* its argument, when a string (or undefined/null)
    encOut                     \* its return value

vars == <<byteToHex, event, pc, trace, span, requestIdentifierContext, nextArg,
          settled, outcome, encOp, encBytes, encStr, encOut>>

mwVars == <<event, pc, trace, span, requestIdentifierContext, nextArg, settled, outcome>>

encVars == <<encOp, encBytes, encStr, encOut>>

----------------------------------------------------------------------------
(* JavaScript values *)

Undefined == <<"#undefined">>

Null == <<"#null">>

\* An object without properties: {}
EmptyObject == [k \in {} |-> Undefined]

\* ToBoolean of a string-or-absent value: undefined, null and '' are falsy
Truthy(v) == v # Undefined /\ v # Null /\ v # <<>>

\* a || b
Or(a, b) == IF Truthy(a) THEN a ELSE b

\* obj[k]: undefined when obj has no property k
Get(obj, k) == IF k \in DOMAIN obj THEN obj[k] ELSE Undefined

\* {...a, ...b}
Spread(a, b) == [k \in (DOMAIN a) \cup (DOMAIN b) |-> IF k \in DOMAIN b THEN b[k] ELSE a[k]]

MinOf(S) == CHOOSE x \in S : \A y \in S : x <= y

\* String.prototype.slice(from, to) for 0 <= from <= to
Slice(s, from, to) ==
    LET end == IF to < Len(s) THEN to ELSE Len(s)
    IN  IF from >= end THEN <<>> ELSE SubSeq(s, from + 1, end)

\* String.prototype.replace(c, '') with a string pattern: the first occurrence only
ReplaceFirstWithEmpty(s, c) ==
    LET at == {k \in 1..Len(s) : s[k] = c}
    IN  IF at = {} THEN s
        ELSE SubSeq(s, 1, MinOf(at) - 1) \o SubSeq(s, MinOf(at) + 1, Len(s))

HexDigits == <<"0", "1", "2", "3", "4", "5", "6", "7", "8", "9", "a", "b", "c", "d", "e", "f">>

\* Number.prototype.toString(16) for n >= 0
RECURSIVE ToString16(_)
ToString16(n) ==
    IF n < 16 THEN <<HexDigits[n + 1]>>
    ELSE ToString16(n \div 16) \o <<HexDigits[(n % 16) + 1]>>

\* Array.prototype.join('')
RECURSIVE Join(_)
Join(parts) == IF parts = <<>> THEN <<>> ELSE Head(parts) \o Join(Tail(parts))

----------------------------------------------------------------------------
(* Encoding helpers, middleware.ts:16-60 *)

\* the table the loop of lines 17-19 leaves behind
ByteToHexTable == [b \in 0..255 |-> Slice(ToString16(b + 256), 1, 3)]

bytesToHexString(bytes) == Join([k \in 1..Len(bytes) |-> byteToHex[bytes[k]]])

formatHexAsUUID(hexString) ==
    Join(<<Slice(hexString, 0, 8), <<"-">>,
           Slice(hexString, 8, 12), <<"-">>,
           Slice(hexString, 12, 16), <<"-">>,
           Slice(hexString, 16, 24), <<"-">>,
           Slice(hexString, 24, 36)>>)

bytesToUuid(bytes) == formatHexAsUUID(bytesToHexString(bytes))

convertMaybeUuidToHexString(uuid) ==
    IF uuid = Undefined \/ uuid = Null \/ uuid = <<>> THEN Undefined
    ELSE ReplaceFirstWithEmpty(uuid, "-")

convertMaybeHexStringToUuid(hexString) ==
    IF hexString = Undefined \/ hexString = Null \/ hexString = <<>> THEN Undefined
    ELSE formatHexAsUUID(hexString)

----------------------------------------------------------------------------
(* Inputs of the encoding helpers *)

\* number of sample byte arrays the helpers are called with
MaxSeed == 24

\* a 16-element array of bytes, spread over 0..255
Buffer(seed) == [k \in 1..16 |-> (seed * 53 + k * (2 * seed + 17)) % 256]

ByteInputs == {Buffer(s) : s \in 0..MaxSeed}

\* '0123456789abcdef0123456789abcdef'
HexSample == HexDigits \o HexDigits

\* '11111111-1111-1111-1111-111111111111'
UuidSample ==
    LET ones(n) == [k \in 1..n |-> "1"]
    IN  ones(8) \o <<"-">> \o ones(4) \o <<"-">> \o ones(4) \o <<"-">> \o ones(4)
          \o <<"-">> \o ones(12)

HexInputs == {HexSample} \cup {bytesToHexString(b) : b \in ByteInputs}

StringInputs ==
    {Undefined, Null, <<>>, <<"-">>, UuidSample} \cup HexInputs
        \cup {formatHexAsUUID(h) : h \in HexInputs}

CallBytesToHexString ==
    /\ \E b \in ByteInputs :
          /\ encBytes' = b
          /\ encOut' = bytesToHexString(b)
    /\ encOp' = "bytesToHexString"
    /\ encStr' = Undefined
    /\ UNCHANGED <<byteToHex, mwVars>>

CallBytesToUuid ==
    /\ \E b \in ByteInputs :
          /\ encBytes' = b
          /\ encOut' = bytesToUuid(b)
    /\ encOp' = "bytesToUuid"
    /\ encStr' = Undefined
    /\ UNCHANGED <<byteToHex, mwVars>>

CallFormatHexAsUUID ==
    /\ \E h \in HexInputs :
          /\ encStr' = h
          /\ encOut' = formatHexAsUUID(h)
    /\ encOp' = "formatHexAsUUID"
    /\ encBytes' = <<>>
    /\ UNCHANGED <<byteToHex, mwVars>>

CallConvertMaybeUuidToHexString ==
    /\ \E u \in StringInputs :
          /\ encStr' = u
          /\ encOut' = convertMaybeUuidToHexString(u)
    /\ encOp' = "convertMaybeUuidToHexString"
    /\ encBytes' = <<>>
    /\ UNCHANGED <<byteToHex, mwVars>>

CallConvertMaybeHexStringToUuid ==
    /\ \E h \in StringInputs :
          /\ encStr' = h
          /\ encOut' = convertMaybeHexStringToUuid(h)
    /\ encOp' = "convertMaybeHexStringToUuid"
    /\ encBytes' = <<>>
    /\ UNCHANGED <<byteToHex, mwVars>>

EncIdle ==
    /\ encOp = "none"
    /\ encBytes = <<>>
    /\ encStr = Undefined
    /\ encOut = Undefined

InitEnc ==
    /\ byteToHex = ByteToHexTable
    /\ event = <<>>
    /\ pc = <<>>
    /\ trace = <<>>
    /\ span = <<>>
    /\ requestIdentifierContext = <<>>
    /\ nextArg = <<>>
    /\ settled = <<>>
    /\ outcome = <<>>
    /\ EncIdle

NextEnc ==
    \/ CallBytesToHexString
    \/ CallBytesToUuid
    \/ CallFormatHexAsUUID
    \/ CallConvertMaybeUuidToHexString
    \/ CallConvertMaybeHexStringToUuid

SpecEnc == InitEnc /\ [][NextEnc]_vars

----------------------------------------------------------------------------
(* The middleware, middleware.ts:63-139 *)

IdentityKeys ==
    {"correlation-id", "x-correlation-id",
     "parent-id", "x-parent-id", "x-b3-parentspanid",
     "request-id", "x-request-id",
     "session-id", "x-session-id",
     "span-id", "x-span-id", "x-b3-spanid",
     "trace-id", "x-trace-id", "x-b3-traceid"}

\* lines 72-73
InboundCorrelationId(headers) ==
    Or(Get(headers, "correlation-id"), Get(headers, "x-correlation-id"))

\* lines 75-78
InboundParentId(headers) ==
    Or(Or(Get(headers, "parent-id"), Get(headers, "x-parent-id")),
       Get(headers, "x-b3-parentspanid"))

\* lines 80-81
InboundRequestId(headers) ==
    Or(Get(headers, "request-id"), Get(headers, "x-request-id"))

\* lines 83-84
InboundSessionId(headers) ==
    Or(Get(headers, "session-id"), Get(headers, "x-session-id"))

\* lines 86-89
InboundSpanId(headers) ==
    Or(Or(Get(headers, "span-id"), Get(headers, "x-span-id")),
       Get(headers, "x-b3-spanid"))
\* variant: the x-b3 key is consulted first
InboundTraceIdB3First(headers) ==
    Or(Or(Get(headers, "x-b3-traceid"), Get(headers, "trace-id")),
       Get(headers, "x-trace-id"))

\* lines 91-94
InboundTraceId(headers) ==
    Or(Or(Get(headers, "trace-id"), Get(headers, "x-trace-id")),
       Get(headers, "x-b3-traceid"))
\* variant: parentId is always a property of the bundle
ParentIdMixinAlways(parentId) == [parentId |-> parentId]

\* line 102: ...(parentId && {parentId})
ParentIdMixin(parentId) ==
    IF Truthy(parentId) THEN [parentId |-> parentId] ELSE EmptyObject
\* variant: the whole span buffer is encoded
SpanFallbackWhole(spanBuf) == bytesToHexString(spanBuf)

\* line 113: bytesToHexString(span.slice(0, 8))
SpanFallback(spanBuf) == bytesToHexString(SubSeq(spanBuf, 1, 8))

\* lines 96-119: the object literal requestIdentifierContext
RequestIdentifierContext(headers, traceBuf, spanBuf) ==
    LET correlationId == InboundCorrelationId(headers)
        parentId == InboundParentId(headers)
        requestId == InboundRequestId(headers)
        sessionId == InboundSessionId(headers)
        spanId == InboundSpanId(headers)
        traceId == InboundTraceId(headers)
    IN  [requestIdentity |->
            Spread(
                [correlationId |->
                    Or(Or(correlationId, convertMaybeHexStringToUuid(traceId)),
                       bytesToUuid(traceBuf)),
                 requestId |->
                    Or(Or(Or(requestId, correlationId), convertMaybeHexStringToUuid(traceId)),
                       bytesToUuid(traceBuf)),
                 sessionId |->
                    Or(Or(Or(sessionId, correlationId), convertMaybeHexStringToUuid(traceId)),
                       bytesToUuid(traceBuf)),
                 spanId |-> Or(spanId, SpanFallback(spanBuf)),
                 traceId |->
                    Or(Or(traceId, convertMaybeUuidToHexString(correlationId)),
                       bytesToHexString(traceBuf))],
                ParentIdMixin(parentId))]
\* line 120: the argument of next(event)
NextArgument(ev, context) == ev

\* lines 121-137: the object literal headers
OutboundHeaders(context) ==
    LET id == context.requestIdentity
    IN  [k \in IdentityKeys |->
            CASE k \in {"correlation-id", "x-correlation-id"} -> id.correlationId
              [] k \in {"parent-id", "x-parent-id", "x-b3-parentspanid"} -> Get(id, "parentId")
              [] k \in {"request-id", "x-request-id"} -> id.requestId
              [] k \in {"session-id", "x-session-id"} -> id.sessionId
              [] k \in {"span-id", "x-span-id", "x-b3-spanid"} -> id.spanId
              [] k \in {"trace-id", "x-trace-id", "x-b3-traceid"} -> id.traceId]

\* line 138: result.headers || {}
ResultHeaders(result) ==
    IF "headers" \in DOMAIN result THEN result.headers ELSE EmptyObject
\* variant: the result's own headers win
MergeHeadersResultWins(resultHeaders, headers) == Spread(headers, resultHeaders)

\* line 138: {...(result.headers || {}), ...headers}
MergeHeaders(resultHeaders, headers) == Spread(resultHeaders, headers)
\* variant: only the headers are returned
ResponseHeadersOnly(result, headers) ==
    [headers |-> Spread(IF "headers" \in DOMAIN result THEN result.headers ELSE EmptyObject,
                        headers)]

\* line 138: {...result, headers: ...}
Response(result, headers) ==
    Spread(result, [headers |-> MergeHeaders(ResultHeaders(result), headers)])
\* variant: a rejection is caught and answered with the identity headers
ContinuationCatching(how, context) ==
    CASE how.kind = "rejected" ->
            [kind |-> "fulfilled",
             value |-> Response([statusCode |-> 500], OutboundHeaders(context))]
      [] how.kind = "fulfilledUndefined" -> [kind |-> "rejected", error |-> "TypeError"]
      [] how.kind = "fulfilled" ->
            [kind |-> "fulfilled", value |-> Response(how.value, OutboundHeaders(context))]

\* lines 120-138, from the point the awaited promise has settled: a rejection
\* is rethrown by await; reading result.headers of an undefined result throws
Continuation(how, context) ==
    CASE how.kind = "rejected" -> [kind |-> "rejected", error |-> how.error]
      [] how.kind = "fulfilledUndefined" -> [kind |-> "rejected", error |-> "TypeError"]
      [] how.kind = "fulfilled" ->
            [kind |-> "fulfilled", value |-> Response(how.value, OutboundHeaders(context))]
\* variant: one module-level binding shared by all calls
BindContextShared(contexts, i, context) == [j \in DOMAIN contexts |-> context]

\* the binding of requestIdentifierContext is local to one call (line 96)
BindContext(contexts, i, context) == [contexts EXCEPT ![i] = context]

----------------------------------------------------------------------------
(* Inputs of the middleware *)

\* at most this many identity keys are present in an inbound header map
MaxPresent == 2

HeaderValues == {<<>>, <<"-">>, HexSample, UuidSample}

HeaderMaps(keys, values, max) ==
    UNION {[S -> values] : S \in {T \in SUBSET keys : Cardinality(T) <= max}}

EventOf(h) == [headers |-> h @@ ("host" :> <<"h">>), path |-> <<"/">>]

Events == {EventOf(h) : h \in HeaderMaps(IdentityKeys, HeaderValues, MaxPresent)}

ConcEvents ==
    {EventOf(h) : h \in HeaderMaps({"correlation-id", "x-b3-traceid"}, {HexSample, UuidSample}, 1)}

\* what uuidv4(null, buffer) may leave in the buffer (lines 66-70)
RandomBuffers == {Buffer(1), Buffer(2)}

HandlerSet == <<"s", "e", "t">>

\* what the wrapped handler may resolve to
HandlerResults ==
    {[statusCode |-> 200, body |-> <<"o", "k">>],
     [statusCode |-> 201, body |-> <<>>,
      headers |-> ("content-type" :> <<"j">>) @@ ("x-trace-id" :> HandlerSet)
                    @@ ("parent-id" :> HandlerSet) @@ ("correlation-id" :> HandlerSet)]}

\* what the wrapped handler may reject with
HandlerErrors == {"HandlerError"}

Pending == [kind |-> "pending"]

----------------------------------------------------------------------------
(* Actions *)

\* lines 65-120, up to the await: the buffers are generated, the inbound
\* headers are read, the context is built and next is called
Invoke(i) ==
    /\ pc[i] = "idle"
    /\ \E t \in RandomBuffers, s \in RandomBuffers :
          /\ trace' = [trace EXCEPT ![i] = t]
          /\ span' = [span EXCEPT ![i] = s]
          /\ requestIdentifierContext' =
                BindContext(requestIdentifierContext, i,
                            RequestIdentifierContext(event[i].headers, t, s))
          /\ nextArg' = [nextArg EXCEPT ![i] =
                            NextArgument(event[i],
                                RequestIdentifierContext(event[i].headers, t, s))]
    /\ pc' = [pc EXCEPT ![i] = "awaiting"]
    /\ UNCHANGED <<byteToHex, event, settled, outcome, encVars>>

\* the promise returned by next(event) is fulfilled with a result object
HandlerFulfils(i) ==
    /\ pc[i] = "awaiting"
    /\ \E r \in HandlerResults :
          settled' = [settled EXCEPT ![i] = [kind |-> "fulfilled", value |-> r]]
    /\ pc' = [pc EXCEPT ![i] = "settled"]
    /\ UNCHANGED <<byteToHex, event, trace, span, requestIdentifierContext, nextArg,
                   outcome, encVars>>

\* the promise returned by next(event) is fulfilled with undefined
HandlerFulfilsUndefined(i) ==
    /\ pc[i] = "awaiting"
    /\ settled' = [settled EXCEPT ![i] = [kind |-> "fulfilledUndefined"]]
    /\ pc' = [pc EXCEPT ![i] = "settled"]
    /\ UNCHANGED <<byteToHex, event, trace, span, requestIdentifierContext, nextArg,
                   outcome, encVars>>

\* the promise returned by next(event) is rejected
HandlerRejects(i) ==
    /\ pc[i] = "awaiting"
    /\ \E e \in HandlerErrors :
          settled' = [settled EXCEPT ![i] = [kind |-> "rejected", error |-> e]]
    /\ pc' = [pc EXCEPT ![i] = "settled"]
    /\ UNCHANGED <<byteToHex, event, trace, span, requestIdentifierContext, nextArg,
                   outcome, encVars>>

\* lines 120-138: the await resumes and the async function settles its promise
Resume(i) ==
    /\ pc[i] = "settled"
    /\ outcome' = [outcome EXCEPT ![i] = Continuation(settled[i], requestIdentifierContext[i])]
    /\ pc' = [pc EXCEPT ![i] = "done"]
    /\ UNCHANGED <<byteToHex, event, trace, span, requestIdentifierContext, nextArg,
                   settled, encVars>>

InitCalls(calls, events) ==
    /\ byteToHex = ByteToHexTable
    /\ event \in [calls -> events]
    /\ pc = [i \in calls |-> "idle"]
    /\ trace = [i \in calls |-> <<>>]
    /\ span = [i \in calls |-> <<>>]
    /\ requestIdentifierContext = [i \in calls |-> EmptyObject]
    /\ nextArg = [i \in calls |-> EmptyObject]
    /\ settled = [i \in calls |-> Pending]
    /\ outcome = [i \in calls |-> Pending]
    /\ EncIdle

\* one call of the wrapped handler
Init == InitCalls({1}, Events)

\* two calls in flight at once
InitConc == InitCalls({1, 2}, ConcEvents)

Next ==
    \/ \E i \in DOMAIN pc : Invoke(i)
    \/ \E i \in DOMAIN pc : HandlerFulfils(i)
    \/ \E i \in DOMAIN pc : HandlerFulfilsUndefined(i)
    \/ \E i \in DOMAIN pc : HandlerRejects(i)
    \/ \E i \in DOMAIN pc : Resume(i)

Spec == Init /\ [][Next]_vars

SpecConc == InitConc /\ [][Next]_vars

----------------------------------------------------------------------------
(* Properties of the encoding helpers, under SpecEnc *)

Hyphens(s) == {k \in 1..Len(s) : s[k] = "-"}

\* s without any of its hyphens
RECURSIVE StripHyphens(_)
StripHyphens(s) ==
    IF s = <<>> THEN <<>>
    ELSE IF Head(s) = "-" THEN StripHyphens(Tail(s))
    ELSE <<Head(s)>> \o StripHyphens(Tail(s))

\* groups of 8, 4, 4, 4 and 12 characters of h, in order, joined by single hyphens
Grouped84412(h, s) ==
    /\ Len(s) = 36
    /\ Hyphens(s) = {9, 14, 19, 24}
    /\ StripHyphens(s) = h

\* C2: formatHexAsUUID of a 32-character hex string is that string in groups of
\* 8, 4, 4, 4, 12 joined by hyphens, and so is bytesToUuid of 16 bytes, whose
\* other characters are bytesToHexString of the bytes.
C2_CanonicalGrouping ==
    /\ (encOp = "formatHexAsUUID" /\ Len(encStr) = 32) => Grouped84412(encStr, encOut)
    /\ (encOp = "bytesToUuid" /\ Len(encBytes) = 16)
          => Grouped84412(bytesToHexString(encBytes), encOut)

\* C3: convertMaybeUuidToHexString returns undefined for undefined, null and '',
\* otherwise its input without hyphens, so it inverts convertMaybeHexStringToUuid
\* on 32-character hex strings.
C3_StripInvertsHyphenation ==
    encOp = "convertMaybeUuidToHexString" =>
        /\ (encStr \in {Undefined, Null, <<>>}) => encOut = Undefined
        /\ (encStr \notin {Undefined, Null, <<>>}) =>
              /\ encOut = StripHyphens(encStr)
              /\ Hyphens(encOut) = {}
        /\ \A h \in HexInputs :
              encStr = convertMaybeHexStringToUuid(h) => encOut = h

----------------------------------------------------------------------------
(* Properties of one call of the middleware, under Spec *)

Calls == DOMAIN pc

Identity(i) == requestIdentifierContext[i].requestIdentity

Resolved(i) == pc[i] # "idle"

Responded(i) == pc[i] = "done" /\ outcome[i].kind = "fulfilled"

\* the first non-empty candidate of a chain, undefined when there is none
FirstNonEmpty(chain) ==
    LET at == {k \in 1..Len(chain) : Truthy(chain[k])}
    IN  IF at = {} THEN Undefined ELSE chain[MinOf(at)]

\* an inbound field: the first non-empty of its keys, in the order given
Inbound(headers, keys) == FirstNonEmpty([k \in 1..Len(keys) |-> Get(headers, keys[k])])

CorrelationKeys == <<"correlation-id", "x-correlation-id">>

ParentKeys == <<"parent-id", "x-parent-id", "x-b3-parentspanid">>

RequestKeys == <<"request-id", "x-request-id">>

SessionKeys == <<"session-id", "x-session-id">>

SpanKeys == <<"span-id", "x-span-id", "x-b3-spanid">>

TraceKeys == <<"trace-id", "x-trace-id", "x-b3-traceid">>

CorrelationChain(headers, traceBuf) ==
    <<Inbound(headers, CorrelationKeys),
      convertMaybeHexStringToUuid(Inbound(headers, TraceKeys)),
      bytesToUuid(traceBuf)>>

PresentIdentityKeys(i) == (DOMAIN event[i].headers) \cap IdentityKeys

\* C1: next is called with the event plus the resolved bundle under
\* requestIdentity.
C1_NextSeesRequestIdentity ==
    \A i \in Calls :
        Resolved(i) =>
            /\ "requestIdentity" \in DOMAIN nextArg[i]
            /\ nextArg[i].requestIdentity = Identity(i)
            /\ \A f \in DOMAIN event[i] : f \in DOMAIN nextArg[i] /\ nextArg[i][f] = event[i][f]

\* C4: every field of the bundle is the first non-empty candidate of its
\* precedence chain; parentId is the inbound parent id or absent; with only
\* trace-id supplied traceId is the input and the three ids are its hyphenated
\* form; with only correlation-id supplied requestId and sessionId are that value.
C4_PrecedenceChains ==
    \A i \in Calls :
        Resolved(i) =>
            LET h == event[i].headers
                id == Identity(i)
                chain == CorrelationChain(h, trace[i])
            IN  /\ id.correlationId = FirstNonEmpty(chain)
                /\ id.requestId = FirstNonEmpty(<<Inbound(h, RequestKeys)>> \o chain)
                /\ id.sessionId = FirstNonEmpty(<<Inbound(h, SessionKeys)>> \o chain)
                /\ id.spanId =
                      FirstNonEmpty(<<Inbound(h, SpanKeys),
                                      bytesToHexString(SubSeq(span[i], 1, 8))>>)
                /\ id.traceId =
                      FirstNonEmpty(<<Inbound(h, TraceKeys),
                                      convertMaybeUuidToHexString(Inbound(h, CorrelationKeys)),
                                      bytesToHexString(trace[i])>>)
                /\ IF Truthy(Inbound(h, ParentKeys))
                   THEN "parentId" \in DOMAIN id /\ id.parentId = Inbound(h, ParentKeys)
                   ELSE "parentId" \notin DOMAIN id
                /\ (PresentIdentityKeys(i) = {"trace-id"} /\ Truthy(h["trace-id"])) =>
                      /\ id.traceId = h["trace-id"]
                      /\ id.correlationId = convertMaybeHexStringToUuid(h["trace-id"])
                      /\ id.requestId = id.correlationId
                      /\ id.sessionId = id.correlationId
                /\ (PresentIdentityKeys(i) = {"correlation-id"} /\ Truthy(h["correlation-id"])) =>
                      /\ id.requestId = h["correlation-id"]
                      /\ id.sessionId = h["correlation-id"]

\* two keys of the trace field carry different values and the bundle is resolved
C4_Witness ==
    \E i \in Calls :
        /\ Resolved(i)
        /\ {"trace-id", "x-b3-traceid"} \subseteq DOMAIN event[i].headers
        /\ Truthy(event[i].headers["trace-id"])
        /\ Truthy(event[i].headers["x-b3-traceid"])
        /\ event[i].headers["trace-id"] # event[i].headers["x-b3-traceid"]
        /\ Identity(i).traceId = event[i].headers["trace-id"]

\* C5: with no identity key in the event, correlationId, requestId and sessionId
\* are the one value synthesized from the trace buffer, parentId is absent, and
\* spanId and traceId are populated and differ.
C5_NoInboundFields ==
    \A i \in Calls :
        (Resolved(i) /\ PresentIdentityKeys(i) = {}) =>
            LET id == Identity(i)
            IN  /\ id.correlationId = bytesToUuid(trace[i])
                /\ id.requestId = id.correlationId
                /\ id.sessionId = id.correlationId
                /\ "parentId" \notin DOMAIN id
                /\ Truthy(id.spanId)
                /\ Truthy(id.traceId)
                /\ id.spanId # id.traceId

\* no identity key is present, and both buffers hold the same bytes
C5_Witness ==
    \E i \in Calls :
        /\ Resolved(i)
        /\ PresentIdentityKeys(i) = {}
        /\ trace[i] = span[i]
        /\ Len(Identity(i).spanId) = 16
        /\ Len(Identity(i).traceId) = 32

ParentIdOrUndefined(id) == IF "parentId" \in DOMAIN id THEN id.parentId ELSE Undefined

\* C6: in every response, the plain, x- and x-b3 keys of each field carry the
\* field's resolved value, whatever the handler's response held under them; an
\* absent parentId is the absent value under its three keys.
C6_IdentityHeadersWin ==
    \A i \in Calls :
        Responded(i) =>
            LET hd == outcome[i].value.headers
                id == Identity(i)
            IN  /\ hd["correlation-id"] = id.correlationId
                /\ hd["x-correlation-id"] = id.correlationId
                /\ hd["parent-id"] = ParentIdOrUndefined(id)
                /\ hd["x-parent-id"] = ParentIdOrUndefined(id)
                /\ hd["x-b3-parentspanid"] = ParentIdOrUndefined(id)
                /\ hd["request-id"] = id.requestId
                /\ hd["x-request-id"] = id.requestId
                /\ hd["session-id"] = id.sessionId
                /\ hd["x-session-id"] = id.sessionId
                /\ hd["span-id"] = id.spanId
                /\ hd["x-span-id"] = id.spanId
                /\ hd["x-b3-spanid"] = id.spanId
                /\ hd["trace-id"] = id.traceId
                /\ hd["x-trace-id"] = id.traceId
                /\ hd["x-b3-traceid"] = id.traceId

\* the handler's response set identity keys, parent-id among them, parentId is
\* absent from the bundle, and the response has been returned
C6_Witness ==
    \E i \in Calls :
        /\ Responded(i)
        /\ "headers" \in DOMAIN settled[i].value
        /\ settled[i].value.headers["parent-id"] = HandlerSet
        /\ settled[i].value.headers["x-trace-id"] = HandlerSet
        /\ "parentId" \notin DOMAIN Identity(i)
        /\ outcome[i].value.headers["parent-id"] = Undefined

\* C7: when the wrapped handler fails, the middleware fails with the same
\* failure and produces no response.
C7_FailurePropagates ==
    \A i \in Calls :
        settled[i].kind = "rejected" =>
            /\ outcome[i].kind # "fulfilled"
            /\ pc[i] = "done" =>
                  /\ outcome[i].kind = "rejected"
                  /\ outcome[i].error = settled[i].error

\* the handler has failed and the middleware's promise has settled
C7_Witness ==
    \E i \in Calls :
        /\ settled[i].kind = "rejected"
        /\ pc[i] = "done"
        /\ outcome[i].kind = "rejected"

\* C8: for every event, once resolution is through and next is called, the
\* five required ids are non-empty strings and parentId is absent or a
\* non-empty string; the call has not failed before its handler settled.
C8_BundleNonEmpty ==
    \A i \in Calls :
        /\ settled[i].kind = "pending" => outcome[i].kind = "pending"
        /\ Resolved(i) =>
              LET id == Identity(i)
              IN  /\ DOMAIN id \in {{"correlationId", "requestId", "sessionId", "spanId",
                                     "traceId"},
                                    {"correlationId", "requestId", "sessionId", "spanId",
                                     "traceId", "parentId"}}
                  /\ Truthy(id.correlationId)
                  /\ Truthy(id.requestId)
                  /\ Truthy(id.sessionId)
                  /\ Truthy(id.spanId)
                  /\ Truthy(id.traceId)
                  /\ "parentId" \in DOMAIN id => Truthy(id.parentId)

\* a lone hyphen as correlation id and an empty parent id, resolved
C8_Witness ==
    \E i \in Calls :
        /\ Resolved(i)
        /\ PresentIdentityKeys(i) = {"x-correlation-id", "parent-id"}
        /\ event[i].headers["x-correlation-id"] = <<"-">>
        /\ event[i].headers["parent-id"] = <<>>
        /\ Identity(i).traceId = bytesToHexString(trace[i])

NonIdentityHeaders(result) == (DOMAIN ResultHeaders(result)) \ IdentityKeys

ResponseFrame ==
    \A i \in Calls :
        Responded(i) =>
            LET r == settled[i].value
                resp == outcome[i].value
            IN  /\ DOMAIN resp = (DOMAIN r) \cup {"headers"}
                /\ \A f \in (DOMAIN r) \ {"headers"} : resp[f] = r[f]
                /\ DOMAIN resp.headers = (DOMAIN ResultHeaders(r)) \cup IdentityKeys
                /\ \A k \in NonIdentityHeaders(r) : resp.headers[k] = r.headers[k]
                /\ "headers" \notin DOMAIN r =>
                      resp.headers = OutboundHeaders(requestIdentifierContext[i])

\* C10: the event is never modified; every field of the handler's result but
\* headers, and every header outside the 15 identity keys, is returned
\* unchanged; a result without headers yields exactly the identity headers.
C10_OnlyIdentityHeadersChange == []ResponseFrame /\ [][event' = event]_vars

\* a response to a result that has a header outside the identity keys
C10_Witness ==
    \E i \in Calls :
        /\ Responded(i)
        /\ NonIdentityHeaders(settled[i].value) = {"content-type"}
        /\ outcome[i].value.headers["content-type"] = <<"j">>
        /\ outcome[i].value.statusCode = 201

----------------------------------------------------------------------------
(* Two calls in flight, under SpecConc *)

\* C9: in every interleaving of two calls, each call's bundle and outbound
\* headers are determined by its own event, its own two buffers and its own
\* handler result, and the lookup table stays as initialised.
C9_NoSharedState ==
    /\ byteToHex = ByteToHexTable
    /\ \A i \in Calls :
          /\ Resolved(i) =>
                requestIdentifierContext[i] =
                    RequestIdentifierContext(event[i].headers, trace[i], span[i])
          /\ Responded(i) =>
                outcome[i].value.headers =
                    Spread(ResultHeaders(settled[i].value),
                           OutboundHeaders(
                               RequestIdentifierContext(event[i].headers, trace[i], span[i])))

\* both calls are in flight, the second one's handler has answered first, and
\* their bundles differ
C9_Witness ==
    /\ Calls = {1, 2}
    /\ pc[1] = "awaiting"
    /\ pc[2] = "settled"
    /\ settled[2].kind = "fulfilled"
    /\ requestIdentifierContext[1] # requestIdentifierContext[2]

====
